---- MODULE Spec2Model ----
(***************************************************************************)
(* Model of workflow.py: the path helper modify_path, the four task        *)
(* templates (uppercase_names, divide_names, unique_names, merge_names),   *)
(* the workflow script that wires them together with gwf.map / collect /   *)
(* target_from_template, and the execution of each target's bash script.   *)
(*                                                                         *)
(* A Python str that is a path is the sequence of its tokens: each "/",    *)
(* each "." and each maximal run of other characters is one token, so      *)
(* 'data/a.txt' is <<"data", "/", "a", ".", "txt">>.  Every str has        *)
(* exactly one such sequence, so two paths are equal exactly when the      *)
(* Python strings are equal, and os.path.split, os.path.splitext and       *)
(* os.path.join, which only look for "/" and ".", are computed as the      *)
(* library computes them.  Labels and target-name parts are TLA+ strings.  *)
(***************************************************************************)
EXTENDS Naturals, Sequences, FiniteSets, TLC

\* The number of target scripts that may be executing at the same time.
MaxRunning == 2
\* The number of targets whose script is launched in one run.
MaxStarted == 2

-----------------------------------------------------------------------------
(* Python str *)

Separators == {"/", "."}

Range(s) == {s[i] : i \in DOMAIN s}

\* a + b: the last token of a and the first token of b form one token unless
\* one of them is a separator.
concat(a, b) ==
    IF a # <<>> /\ b # <<>> /\ a[Len(a)] \notin Separators /\ b[1] \notin Separators
    THEN SubSeq(a, 1, Len(a) - 1) \o <<a[Len(a)] \o b[1]>> \o SubSeq(b, 2, Len(b))
    ELSE a \o b

\* The str of a sequence of characters.
RECURSIVE FromChars(_)
FromChars(chars) ==
    IF chars = <<>> THEN <<>>
    ELSE concat(FromChars(SubSeq(chars, 1, Len(chars) - 1)), <<chars[Len(chars)]>>)

\* str.rfind(c) + 1 for a separator c: the 1-based index of the last c in s,
\* 0 when absent.
RFind(s, c) ==
    LET hits == {i \in DOMAIN s : s[i] = c}
    IN  IF hits = {} THEN 0 ELSE CHOOSE i \in hits : \A j \in hits : j <= i

\* str.rstrip(c) for a separator c
RECURSIVE RStrip(_, _)
RStrip(s, c) ==
    IF s # <<>> /\ s[Len(s)] = c THEN RStrip(SubSeq(s, 1, Len(s) - 1), c) ELSE s

LowerCase ==
    <<"a","b","c","d","e","f","g","h","i","j","k","l","m","n","o","p","q","r","s","t","u","v","w","x","y","z">>
UpperCase ==
    <<"A","B","C","D","E","F","G","H","I","J","K","L","M","N","O","P","Q","R","S","T","U","V","W","X","Y","Z">>

\* str.upper(), on the characters of a str
upper(chars) ==
    [i \in DOMAIN chars |->
        IF chars[i] \in Range(LowerCase)
        THEN UpperCase[CHOOSE k \in DOMAIN LowerCase : LowerCase[k] = chars[i]]
        ELSE chars[i]]

-----------------------------------------------------------------------------
(* String literals of workflow.py *)

input_file1 ==
    <<"data", "/", "input_file1", ".", "txt">>
input_file2 ==
    <<"data", "/", "input_file2", ".", "txt">>
\* input_file_names = ['data/input_file1.txt', 'data/input_file2.txt']
input_file_names ==
    <<input_file1, input_file2>>
\* myname = 'Kasper', as its characters: me.upper() acts on them
myname ==
    <<"K", "a", "s", "p", "e", "r">>
tmp_dir ==
    <<"/", "tmp">>
upper_cased_dir ==
    <<"steps", "/", "upper_cased">>
filtered_names_dir ==
    <<"steps", "/", "filtered_names">>
unique_names_dir ==
    <<"steps", "/", "unique_names">>
\* '_uppercased.txt'
uppercased_suffix ==
    <<"_uppercased", ".", "txt">>
\* '_unique.txt'
unique_suffix ==
    <<"_unique", ".", "txt">>
merged_me_names ==
    <<"results", "/", "merged_me_names", ".", "txt">>
merged_not_me_names ==
    <<"results", "/", "merged_not_me_names", ".", "txt">>
\* options = {'memory': '8g', 'walltime': '00:10:00'}
options ==
    [memory |-> "8g", walltime |-> "00:10:00"]

-----------------------------------------------------------------------------
(* modify_path *)

None == [type |-> "NoneType"]
Str(s) == [type |-> "str", val |-> s]
Tuple(a, b) == [type |-> "tuple", val |-> <<a, b>>]

\* What modify_path returns when one of its assert statements fails.
AssertionError == <<"AssertionError">>

\* os.path.split(p) = <<head, tail>>
os_path_split(p) ==
    LET i == RFind(p, "/")
        head == SubSeq(p, 1, i)
        tail == SubSeq(p, i + 1, Len(p))
    IN  <<IF head # <<>> /\ Range(head) # {"/"} THEN RStrip(head, "/") ELSE head,
          tail>>

\* os.path.splitext(p) = <<root, ext>>: the extension starts at the last dot
\* of the last component, leading dots of that component not counting.
os_path_splitext(p) ==
    LET sepIndex == RFind(p, "/")
        dotIndex == RFind(p, ".")
    IN  IF dotIndex > sepIndex
           /\ \E k \in (sepIndex + 1)..(dotIndex - 1) : p[k] # "."
        THEN <<SubSeq(p, 1, dotIndex - 1), SubSeq(p, dotIndex, Len(p))>>
        ELSE <<p, <<>> >>

\* os.path.join(a, b)
os_path_join(a, b) ==
    IF b # <<>> /\ b[1] = "/" THEN b
    ELSE IF a = <<>> \/ a[Len(a)] = "/" THEN a \o b
    ELSE a \o <<"/">> \o b

\* re.subn(r'{pat}$', rep, path) = <<new_path, nsubs>>, for a pattern without
\* metacharacters that is empty or a whole number of tokens of the path (a
\* pattern that starts inside a token of the path is outside this model: the
\* workflow never passes suffix as a tuple).
re_subn_at_end(pat, rep, path) ==
    IF Len(pat) <= Len(path) /\ SubSeq(path, Len(path) - Len(pat) + 1, Len(path)) = pat
    THEN <<concat(SubSeq(path, 1, Len(path) - Len(pat)), rep), 1>>
    ELSE <<path, 0>>

\* kwargs.setdefault(key, None) for the three keys
setdefault(kwargs) ==
    [key \in DOMAIN kwargs \cup {"dir", "base", "suffix"} |->
        IF key \in DOMAIN kwargs THEN kwargs[key] ELSE None]

\* re.subn(r'{pat}$', rep, path) for a pattern without metacharacters:
\* <<new_path, nsubs>>
modify_path(path, given) ==
    LET kwargs == setdefault(given)
        sp == os_path_split(path)
        se == os_path_splitext(sp[2])
        suf == IF kwargs["suffix"].type = "str" THEN kwargs["suffix"].val ELSE se[2]
        par == IF kwargs["dir"] # None THEN kwargs["dir"].val ELSE sp[1]
        name_no_suffix == IF kwargs["base"] # None THEN kwargs["base"].val ELSE se[1]
        new_path == os_path_join(par, concat(name_no_suffix, suf))
    IN  IF Cardinality(DOMAIN kwargs) # 3 THEN AssertionError
        ELSE IF kwargs["suffix"].type = "tuple"
        THEN LET r == re_subn_at_end(kwargs["suffix"].val[1],
                                     kwargs["suffix"].val[2], new_path)
             IN  IF r[2] = 1 THEN r[1] ELSE AssertionError
        ELSE new_path

-----------------------------------------------------------------------------
(* The bash scripts ("spec") of the templates.  A script is a sequence of   *)
(* commands; and_next says that the command is joined to the next one by   *)
(* &&.  reads are the files the command reads, target is the directory of  *)
(* mkdir -p, the file of the > redirection, or the destination of mv.      *)

Cmd(op, arg, reads, target, and_next) ==
    [op |-> op, arg |-> arg, reads |-> reads, target |-> target, and_next |-> and_next]

AnonymousTarget(inputs, outputs, opts, spec) ==
    [inputs |-> inputs, outputs |-> outputs, options |-> opts, spec |-> spec]

\* uppercase_names with one staging file name for every input file:
\* tmp_uppercased_path = modify_path(raw_path, dir='/tmp', base='tmp')
uppercase_names_shared_tmp(raw_path) ==
    LET output_dir == upper_cased_dir
        uppercased_path ==
            modify_path(raw_path, [dir |-> Str(output_dir), suffix |-> Str(uppercased_suffix)])
        inputs == <<raw_path>>
        outputs == [uppercased_path |-> uppercased_path]
        tmp_uppercased_path ==
            modify_path(raw_path, [dir |-> Str(tmp_dir), base |-> Str(<<"tmp">>)])
        spec == <<
            Cmd("mkdir -p", <<>>, <<>>, output_dir, FALSE),
            Cmd("cat | tr", <<>>, <<raw_path>>, tmp_uppercased_path, TRUE),
            Cmd("mv", <<>>, <<tmp_uppercased_path>>, uppercased_path, FALSE) >>
    IN  AnonymousTarget(inputs, outputs, options, spec)

uppercase_names(raw_path) ==
    LET output_dir == upper_cased_dir
        uppercased_path ==
            modify_path(raw_path, [dir |-> Str(output_dir), suffix |-> Str(uppercased_suffix)])
        inputs == <<raw_path>>
        outputs == [uppercased_path |-> uppercased_path]
        tmp_uppercased_path == modify_path(raw_path, [dir |-> Str(tmp_dir)])
        spec == <<
            Cmd("mkdir -p", <<>>, <<>>, output_dir, FALSE),
            Cmd("cat | tr", <<>>, <<raw_path>>, tmp_uppercased_path, TRUE),
            Cmd("mv", <<>>, <<tmp_uppercased_path>>, uppercased_path, FALSE) >>
    IN  AnonymousTarget(inputs, outputs, options, spec)

divide_names(uppercased_path, me) ==
    LET uppercased_me == FromChars(upper(me))
        output_dir == filtered_names_dir
        filt_me_path ==
            modify_path(uppercased_path,
                        [dir |-> Str(output_dir),
                         suffix |-> Str(concat(concat(<<"_">>, FromChars(me)), <<".", "txt">>))])
        filt_other_path ==
            modify_path(uppercased_path,
                        [dir |-> Str(output_dir),
                         suffix |-> Str(concat(concat(<<"_not_">>, FromChars(me)), <<".", "txt">>))])
        inputs == <<uppercased_path>>
        outputs == [filt_me_path |-> filt_me_path, filt_other_path |-> filt_other_path]
        tmp_filt_me_path == modify_path(filt_me_path, [dir |-> Str(tmp_dir)])
        tmp_filt_other_path == modify_path(filt_other_path, [dir |-> Str(tmp_dir)])
        spec == <<
            Cmd("mkdir -p", <<>>, <<>>, output_dir, FALSE),
            Cmd("grep", uppercased_me, <<uppercased_path>>, tmp_filt_me_path, TRUE),
            Cmd("grep -v", uppercased_me, <<uppercased_path>>, tmp_filt_other_path, TRUE),
            Cmd("mv", <<>>, <<tmp_filt_me_path>>, filt_me_path, TRUE),
            Cmd("mv", <<>>, <<tmp_filt_other_path>>, filt_other_path, FALSE) >>
    IN  AnonymousTarget(inputs, outputs, options, spec)

unique_names(filt_me_path, filt_other_path) ==
    LET output_dir == unique_names_dir
        uniq_me_path ==
            modify_path(filt_me_path, [dir |-> Str(output_dir), suffix |-> Str(unique_suffix)])
        uniq_other_path ==
            modify_path(filt_other_path, [dir |-> Str(output_dir), suffix |-> Str(unique_suffix)])
        inputs == <<filt_me_path, filt_other_path>>
        outputs == [unique_me_path |-> uniq_me_path, unique_other_path |-> uniq_other_path]
        tmp_uniq_me_path == modify_path(uniq_me_path, [dir |-> Str(tmp_dir)])
        tmp_uniq_other_path == modify_path(uniq_other_path, [dir |-> Str(tmp_dir)])
        spec == <<
            Cmd("mkdir -p", <<>>, <<>>, output_dir, FALSE),
            Cmd("sort | uniq", <<>>, <<filt_me_path>>, tmp_uniq_me_path, TRUE),
            Cmd("sort | uniq", <<>>, <<filt_other_path>>, tmp_uniq_other_path, TRUE),
            Cmd("mv", <<>>, <<tmp_uniq_me_path>>, uniq_me_path, TRUE),
            Cmd("mv", <<>>, <<tmp_uniq_other_path>>, uniq_other_path, FALSE) >>
    IN  AnonymousTarget(inputs, outputs, options, spec)

merge_names(paths, output_path) ==
    LET output_dir == modify_path(output_path, [base |-> Str(<<>>), suffix |-> Str(<<>>)])
        inputs == <<paths>>
        outputs == [path |-> output_path]
        tmp_output_path == modify_path(output_path, [dir |-> Str(tmp_dir)])
        spec == <<
            Cmd("mkdir -p", <<>>, <<>>, output_dir, FALSE),
            Cmd("cat", <<>>, paths, tmp_output_path, TRUE),
            Cmd("mv", <<>>, <<tmp_output_path>>, output_path, FALSE) >>
    IN  AnonymousTarget(inputs, outputs, options, spec)

-----------------------------------------------------------------------------
(* The workflow script and the execution of the targets' scripts *)

VARIABLES
    pc,                      \* the statement of the workflow script to run next
    gwf,                     \* the targets registered in the workflow, in order
    uppercase_names_targets, \* the TargetList of each gwf.map call: references
                             \* (indices into gwf) to the targets it registered
    filter_names_targets,
    unique_names_targets,
    collected_outputs,       \* the dict returned by the last collect call
    merge_me_target,         \* the reference to the merge target, 0 before
    merge_other_target,      \* its assignment
    status,                  \* per registered target: idle, running, succeeded, failed
    ip,                      \* per target: the index of its script's next command
    exit_status,             \* per target: TRUE when its last command exited 0
    cmd_failed,              \* per target: some command of its script exited non-zero
    wrote,                   \* per target: the file paths its script created
    fs,                      \* the files that exist
    dirs                     \* the directories that exist

build_vars ==
    <<pc, gwf, uppercase_names_targets, filter_names_targets, unique_names_targets,
      collected_outputs, merge_me_target, merge_other_target>>
run_vars ==
    <<status, ip, exit_status, cmd_failed, wrote, fs, dirs>>
vars ==
    <<build_vars, run_vars>>

\* A variable of the script that is not assigned yet, and an empty dict.
Unassigned == <<>>

Digits == <<"0","1","2","3","4","5","6","7","8","9">>

\* A registered target: the AnonymousTarget under its name.
Target(name, t) ==
    [name |-> name, inputs |-> t.inputs, outputs |-> t.outputs,
     options |-> t.options, spec |-> t.spec]

\* gwf.map(template_func, inputs, extra=...): one target per item, in the order
\* of the items, named <function name>_<index>.  templates[i] is what
\* template_func returns for the i-th item (a dict item is passed as keyword
\* arguments, with extra added).
gwf_map(func_name, templates) ==
    [i \in 1..Len(templates) |-> Target(<<func_name, Digits[i]>>, templates[i])]

\* TargetList.outputs
outputs_of(targets) ==
    [i \in 1..Len(targets) |-> gwf[targets[i]].outputs]

\* References to the targets a call is about to register.
Registered(new) ==
    [i \in DOMAIN new |-> Len(gwf) + i]

\* Raised by collect when an item lacks a requested label.
KeyError == [error |-> "KeyError"]

\* collect(inputs, names): for each name, under the key name + 's', the list of
\* the items' values for name, in the order of the items.
collect(inputs, names) ==
    IF \E i \in DOMAIN inputs : \E k \in DOMAIN names : names[k] \notin DOMAIN inputs[i]
    THEN KeyError
    ELSE [key \in {names[k] \o "s" : k \in DOMAIN names} |->
            LET name == names[CHOOSE k \in DOMAIN names : names[k] \o "s" = key]
            IN  [i \in 1..Len(inputs) |-> inputs[i][name]]]

\* The run state of newly registered targets.
Register(new) ==
    /\ gwf' = gwf \o new
    /\ status' = status \o [i \in DOMAIN new |-> "idle"]
    /\ ip' = ip \o [i \in DOMAIN new |-> 0]
    /\ exit_status' = exit_status \o [i \in DOMAIN new |-> TRUE]
    /\ cmd_failed' = cmd_failed \o [i \in DOMAIN new |-> FALSE]
    /\ wrote' = wrote \o [i \in DOMAIN new |-> {}]
    /\ UNCHANGED <<fs, dirs>>

\* uppercase_names_targets = gwf.map(uppercase_names, input_file_names)
map_uppercase_names ==
    gwf_map("uppercase_names",
            [i \in 1..Len(input_file_names) |-> uppercase_names(input_file_names[i])])

divide_names_item(item) ==
    divide_names(item["uppercased_path"], myname)

\* filter_names_targets = gwf.map(divide_names, uppercase_names_targets.outputs,
\*                                extra=dict(me=myname))
map_divide_names ==
    gwf_map("divide_names",
            [i \in 1..Len(uppercase_names_targets) |->
                divide_names_item(outputs_of(uppercase_names_targets)[i])])

unique_names_item(item) ==
    unique_names(item["filt_me_path"], item["filt_other_path"])

\* unique_names_targets = gwf.map(unique_names, filter_names_targets.outputs)
map_unique_names ==
    gwf_map("unique_names",
            [i \in 1..Len(filter_names_targets) |->
                unique_names_item(outputs_of(filter_names_targets)[i])])

\* collected_outputs = collect(unique_names_targets.outputs, ['unique_me_path'])
collect_unique_me ==
    collect(outputs_of(unique_names_targets), <<"unique_me_path">>)

\* The second collect call with the label of the first one left in place.
collect_unique_other_pasted ==
    collect(outputs_of(unique_names_targets), <<"unique_me_path">>)

\* collected_outputs = collect(unique_names_targets.outputs, ['unique_other_path'])
collect_unique_other ==
    collect(outputs_of(unique_names_targets), <<"unique_other_path">>)

\* gwf.target_from_template('merge_not_me_name_files',
\*     merge_names(collected_outputs['unique_me_paths'], "results/merged_me_names.txt"))
target_merge_me ==
    Target(<<"merge_not_me_name_files">>,
           merge_names(collected_outputs["unique_me_paths"], merged_me_names))

\* gwf.target_from_template('merge_me_name_files',
\*     merge_names(collected_outputs['unique_other_paths'], "results/merged_not_me_names.txt"))
target_merge_other ==
    Target(<<"merge_me_name_files">>,
           merge_names(collected_outputs["unique_other_paths"], merged_not_me_names))

Init ==
    /\ pc = "map_uppercase_names"
    /\ gwf = <<>>
    /\ uppercase_names_targets = Unassigned
    /\ filter_names_targets = Unassigned
    /\ unique_names_targets = Unassigned
    /\ collected_outputs = Unassigned
    /\ merge_me_target = 0
    /\ merge_other_target = 0
    /\ status = <<>>
    /\ ip = <<>>
    /\ exit_status = <<>>
    /\ cmd_failed = <<>>
    /\ wrote = <<>>
    /\ fs \in SUBSET Range(input_file_names)
    /\ dirs = {tmp_dir}

MapUppercaseNames ==
    /\ pc = "map_uppercase_names"
    /\ uppercase_names_targets' = Registered(map_uppercase_names)
    /\ Register(map_uppercase_names)
    /\ pc' = "map_divide_names"
    /\ UNCHANGED <<filter_names_targets, unique_names_targets, collected_outputs,
                   merge_me_target, merge_other_target>>

MapDivideNames ==
    /\ pc = "map_divide_names"
    /\ filter_names_targets' = Registered(map_divide_names)
    /\ Register(map_divide_names)
    /\ pc' = "map_unique_names"
    /\ UNCHANGED <<uppercase_names_targets, unique_names_targets, collected_outputs,
                   merge_me_target, merge_other_target>>

MapUniqueNames ==
    /\ pc = "map_unique_names"
    /\ unique_names_targets' = Registered(map_unique_names)
    /\ Register(map_unique_names)
    /\ pc' = "collect_unique_me"
    /\ UNCHANGED <<uppercase_names_targets, filter_names_targets, collected_outputs,
                   merge_me_target, merge_other_target>>

CollectUniqueMe ==
    /\ pc = "collect_unique_me"
    /\ collected_outputs' = collect_unique_me
    /\ pc' = IF collect_unique_me = KeyError THEN "KeyError" ELSE "merge_me"
    /\ UNCHANGED <<gwf, uppercase_names_targets, filter_names_targets,
                   unique_names_targets, merge_me_target, merge_other_target, run_vars>>

MergeMe ==
    /\ pc = "merge_me"
    /\ IF "unique_me_paths" \in DOMAIN collected_outputs
       THEN /\ merge_me_target' = Len(gwf) + 1
            /\ Register(<<target_merge_me>>)
            /\ pc' = "collect_unique_other"
       ELSE /\ pc' = "KeyError"
            /\ UNCHANGED <<gwf, merge_me_target, run_vars>>
    /\ UNCHANGED <<uppercase_names_targets, filter_names_targets, unique_names_targets,
                   collected_outputs, merge_other_target>>

CollectUniqueOther ==
    /\ pc = "collect_unique_other"
    /\ collected_outputs' = collect_unique_other
    /\ pc' = IF collect_unique_other = KeyError THEN "KeyError" ELSE "merge_other"
    /\ UNCHANGED <<gwf, uppercase_names_targets, filter_names_targets,
                   unique_names_targets, merge_me_target, merge_other_target, run_vars>>

MergeOther ==
    /\ pc = "merge_other"
    /\ IF "unique_other_paths" \in DOMAIN collected_outputs
       THEN /\ merge_other_target' = Len(gwf) + 1
            /\ Register(<<target_merge_other>>)
            /\ pc' = "done"
       ELSE /\ pc' = "KeyError"
            /\ UNCHANGED <<gwf, merge_other_target, run_vars>>
    /\ UNCHANGED <<uppercase_names_targets, filter_names_targets, unique_names_targets,
                   collected_outputs, merge_me_target>>

-----------------------------------------------------------------------------
(* Execution of a target's script by bash.  Whether a command succeeds is   *)
(* the environment's choice, except where it cannot: a command that reads a *)
(* missing file fails, mv fails without its source or without the          *)
(* destination directory, and mkdir -p of an existing directory succeeds.  *)
(* The > redirection creates its file before the command runs, whatever    *)
(* the command's exit status.                                              *)

Running == {t \in DOMAIN gwf : status[t] = "running"}

\* The command target t's script executes next.
Current(t) == gwf[t].spec[ip[t]]

AtCommand(t, ops) ==
    /\ pc = "done"
    /\ status[t] = "running"
    /\ ip[t] \in DOMAIN gwf[t].spec
    /\ Current(t).op \in ops

\* The index of the last command of the && list that holds command i.
RECURSIVE EndOfAndList(_, _)
EndOfAndList(spec, i) ==
    IF spec[i].and_next /\ i < Len(spec) THEN EndOfAndList(spec, i + 1) ELSE i

\* After a command: "a && b" runs b only if a exited 0; a newline runs the
\* next command whatever the exit status.  failed: some process of the command
\* exited non-zero.
Advance(t, ok, failed) ==
    /\ ip' = [ip EXCEPT ![t] =
                IF ok THEN ip[t] + 1 ELSE EndOfAndList(gwf[t].spec, ip[t]) + 1]
    /\ exit_status' = [exit_status EXCEPT ![t] = ok]
    /\ cmd_failed' = [cmd_failed EXCEPT ![t] = cmd_failed[t] \/ failed]
    /\ UNCHANGED <<build_vars, status>>

\* The engine launches bash on the target's script.  Which target is launched
\* when is decided by the engine, outside workflow.py: here any target that was
\* not launched yet may be launched at any time, each one at most once, so that
\* what holds of these runs holds whatever order the engine chooses.
Start(t) ==
    /\ pc = "done"
    /\ status[t] = "idle"
    /\ Cardinality(Running) < MaxRunning
    /\ Cardinality({u \in DOMAIN gwf : status[u] # "idle"}) < MaxStarted
    /\ status' = [status EXCEPT ![t] = "running"]
    /\ ip' = [ip EXCEPT ![t] = 1]
    /\ UNCHANGED <<build_vars, exit_status, cmd_failed, wrote, fs, dirs>>

\* mkdir -p {output_dir}
Mkdir(t) ==
    /\ AtCommand(t, {"mkdir -p"})
    /\ LET d == RStrip(Current(t).target, "/")
       IN  \E ok \in BOOLEAN :
            /\ d \in dirs => ok
            /\ dirs' = IF ok THEN dirs \cup {d} ELSE dirs
            /\ Advance(t, ok, ~ok)
    /\ UNCHANGED <<fs, wrote>>

\* grep ... > tmp, grep -v ... > tmp, cat ... > tmp
Redirect(t) ==
    /\ AtCommand(t, {"grep", "grep -v", "cat"})
    /\ LET c == Current(t)
       IN  \E ok \in BOOLEAN :
            /\ (\E i \in DOMAIN c.reads : c.reads[i] \notin fs) => ~ok
            /\ fs' = fs \cup {c.target}
            /\ wrote' = [wrote EXCEPT ![t] = @ \cup {c.target}]
            /\ Advance(t, ok, ~ok)
    /\ UNCHANGED dirs

\* cat ... | tr ... > tmp, sort ... | uniq > tmp: the exit status of a pipeline
\* is that of its last command.
Pipeline(t) ==
    /\ AtCommand(t, {"cat | tr", "sort | uniq"})
    /\ LET c == Current(t)
       IN  \E first_ok \in BOOLEAN, last_ok \in BOOLEAN :
            /\ (\E i \in DOMAIN c.reads : c.reads[i] \notin fs) => ~first_ok
            /\ fs' = fs \cup {c.target}
            /\ wrote' = [wrote EXCEPT ![t] = @ \cup {c.target}]
            /\ Advance(t, last_ok, ~first_ok \/ ~last_ok)
    /\ UNCHANGED dirs

\* mv tmp output
Mv(t) ==
    /\ AtCommand(t, {"mv"})
    /\ LET c == Current(t)
           src == c.reads[1]
       IN  \E ok \in BOOLEAN :
            /\ (src \notin fs \/ os_path_split(c.target)[1] \notin dirs) => ~ok
            /\ fs' = IF ok THEN (fs \ {src}) \cup {c.target} ELSE fs
            /\ wrote' = [wrote EXCEPT ![t] = IF ok THEN @ \cup {c.target} ELSE @]
            /\ Advance(t, ok, ~ok)
    /\ UNCHANGED dirs

\* The script ends with the exit status of the last command it executed.
Exit(t) ==
    /\ pc = "done"
    /\ status[t] = "running"
    /\ ip[t] > Len(gwf[t].spec)
    /\ status' = [status EXCEPT ![t] = IF exit_status[t] THEN "succeeded" ELSE "failed"]
    /\ UNCHANGED <<build_vars, ip, exit_status, cmd_failed, wrote, fs, dirs>>

Next ==
    \/ MapUppercaseNames
    \/ MapDivideNames
    \/ MapUniqueNames
    \/ CollectUniqueMe
    \/ MergeMe
    \/ CollectUniqueOther
    \/ MergeOther
    \/ \E t \in DOMAIN gwf : Start(t)
    \/ \E t \in DOMAIN gwf : Mkdir(t)
    \/ \E t \in DOMAIN gwf : Redirect(t)
    \/ \E t \in DOMAIN gwf : Pipeline(t)
    \/ \E t \in DOMAIN gwf : Mv(t)
    \/ \E t \in DOMAIN gwf : Exit(t)

Spec == Init /\ [][Next]_vars

-----------------------------------------------------------------------------
(* Properties *)

\* The declared output paths of a target.
DeclaredOutputs(target) ==
    {target.outputs[label] : label \in DOMAIN target.outputs}

\* The file paths a target's script writes: the files of its > redirections
\* (the /tmp staging files) and the destinations of its mv commands.
ScriptWrites(target) ==
    {target.spec[i].target : i \in {k \in DOMAIN target.spec : target.spec[k].op # "mkdir -p"}}

WritePaths(target) ==
    DeclaredOutputs(target) \cup ScriptWrites(target)

\* The pairs <<path, target>> of a family of sets of paths, one set per
\* registered target.
Writers(paths) ==
    UNION {{<<p, t>> : p \in paths[t]} : t \in DOMAIN gwf}

\* No path belongs to the sets of two targets: there are as many paths as
\* pairs <<path, target>>.
Disjoint(paths) ==
    Cardinality({w[1] : w \in Writers(paths)}) = Cardinality(Writers(paths))

\* The label-l outputs of the unique_names targets, in the order of the
\* TargetList.
UniqueOutputs(l) ==
    [i \in 1..Len(unique_names_targets) |-> gwf[unique_names_targets[i]].outputs[l]]

\* The label-l output of the unique_names target that descends from the
\* i-th input file.
UniqueOutputOfInput(i, l) ==
    LET up == uppercase_names(input_file_names[i])
        div == divide_names(up.outputs["uppercased_path"], myname)
        uniq == unique_names(div.outputs["filt_me_path"], div.outputs["filt_other_path"])
    IN  uniq.outputs[l]

\* What collect returned for label l: a dict with the one key l + 's', holding
\* one path per unique_names target, the i-th one being the l output of the
\* i-th target, which is the one that descends from the i-th input file.
Collected(l) ==
    /\ DOMAIN collected_outputs = {l \o "s"}
    /\ Len(collected_outputs[l \o "s"]) = Len(unique_names_targets)
    /\ Len(collected_outputs[l \o "s"]) = Len(input_file_names)
    /\ \A i \in 1..Len(unique_names_targets) :
        /\ collected_outputs[l \o "s"][i] = UniqueOutputs(l)[i]
        /\ collected_outputs[l \o "s"][i] = UniqueOutputOfInput(i, l)

C9_NoOutputAfterFailedCommand ==
    \A t \in DOMAIN gwf :
        cmd_failed[t] => wrote[t] \cap DeclaredOutputs(gwf[t]) = {}

\* C10: no shared write paths.  No two distinct targets of the workflow have
\* a write path (declared output, /tmp staging file) in common, no write path
\* is a failed modify_path, and whatever the interleaving of the running
\* scripts no two targets have written the same file.
C10_NoSharedWritePaths ==
    /\ \A t \in DOMAIN gwf : AssertionError \notin WritePaths(gwf[t])
    /\ Disjoint([t \in DOMAIN gwf |-> WritePaths(gwf[t])])
    /\ Disjoint(wrote)

\* The eight targets are registered and two of them run at the same time,
\* each having written a file.
C10_Witness ==
    /\ pc = "done"
    /\ Len(gwf) = 8
    /\ \E t \in Running : \E u \in Running \ {t} :
        wrote[t] # {} /\ wrote[u] # {}

====
